---------------------------- MODULE Spec2Model ----------------------------
(***************************************************************************)
(* Velox AI agent service: the routing pipeline of agents/pipeline.py      *)
(* (run_pipeline, _call_phi3, the two ADK agent builders) called from the  *)
(* /generate endpoint of agents/main.py, with the Phi-3 sidecar of         *)
(* agents/slm/slm_server.py at the other end of the Light call.            *)
(*                                                                         *)
(* Tiers of the specification and their names in the code:                 *)
(*   Light    = the Phi-3-mini sidecar, model_used "phi-3-mini"            *)
(*   Standard = Gemini Flash,           model_used "gemini-2.5-flash"      *)
(*   Premium  = Gemini Pro,             model_used "gemini-2.5-pro"        *)
(***************************************************************************)
EXTENDS Integers, Sequences, FiniteSets, TLC

(***************************************************************************)
(* Bounds of the model.                                                    *)
(***************************************************************************)
NumReqs  == 1      \* requests handled concurrently by the event loop
MaxWords == 51     \* longest utterance, in words

(***************************************************************************)
(* Program constants.                                                      *)
(***************************************************************************)
PHI3_MAX_WORDS  == 15
FLASH_MAX_WORDS == 50
PHI3_TIMEOUT    == 8

GEMINI_FLASH == "gemini-2.5-flash"
GEMINI_PRO   == "gemini-2.5-pro"
PHI3_MINI    == "phi-3-mini"

Reqs == 1..NumReqs

(***************************************************************************)
(* Strings are sequences of characters; " " is the whitespace character.   *)
(***************************************************************************)
IsSpace(c) == c = " "

RECURSIVE Repeat(_, _)
Repeat(c, n) == IF n = 0 THEN <<>> ELSE <<c>> \o Repeat(c, n - 1)

\* str.lstrip / str.rstrip / str.strip
RECURSIVE LStrip(_)
LStrip(s) ==
    IF s = <<>> THEN <<>>
    ELSE IF IsSpace(Head(s)) THEN LStrip(Tail(s)) ELSE s

RECURSIVE RStrip(_)
RStrip(s) ==
    IF s = <<>> THEN <<>>
    ELSE IF IsSpace(s[Len(s)]) THEN RStrip(SubSeq(s, 1, Len(s) - 1)) ELSE s

Strip(s) == RStrip(LStrip(s))

\* str.split() with no separator yields the maximal runs of non-whitespace:
\* one word starts at every non-blank that is first or follows a blank.
WordStarts(s) ==
    { i \in 1..Len(s) : ~IsSpace(s[i]) /\ (i = 1 \/ IsSpace(s[i - 1])) }

\* len(user_message.split())
WordCountOf(user_message) == Cardinality(WordStarts(user_message))

(***************************************************************************)
(* The utterances a caller sends: n one-letter words.  The whitespace is   *)
(* irregular: a leading blank when n is odd, a trailing blank when n is a  *)
(* multiple of 3, and i % 3 + 1 blanks after the i-th word.  Utterance(0)  *)
(* is whitespace only.                                                     *)
(***************************************************************************)
RECURSIVE Words(_, _)
Words(i, n) ==
    IF i > n THEN <<>>
    ELSE IF i = n THEN <<"a">>
    ELSE <<"a">> \o Repeat(" ", (i % 3) + 1) \o Words(i + 1, n)

Utterance(n) ==
    Repeat(" ", n % 2) \o Words(1, n) \o Repeat(" ", IF n % 3 = 0 THEN 1 ELSE 0)

\* word counts at and around the two thresholds, and the longest one
WordCounts ==
    { n \in 0..MaxWords :
        \/ n \in {0, 1, MaxWords}
        \/ n \in {PHI3_MAX_WORDS - 1, PHI3_MAX_WORDS}
        \/ n \in {FLASH_MAX_WORDS - 1, FLASH_MAX_WORDS} }

Messages == { Utterance(n) : n \in WordCounts }

(***************************************************************************)
(* Python values the pipeline passes around: str and None.                 *)
(***************************************************************************)
Str(s) == [type |-> "str", v |-> s]
None   == [type |-> "NoneType", v |-> <<>>]

\* the test written `if phi3_reply is not None:`
TruthyNotNone(x) == x.type = "str"

\* truth value of an Optional[str] in `if phi3_reply:`
Truthy(x) == x.type = "str" /\ x.v # <<>>

\* what the three models write
PHI3_TEXT  == <<"p", "h", "i">>
FLASH_TEXT == <<"f", "l", "a", "s", "h">>
PRO_TEXT   == <<"p", "r", "o">>
BLANK_TEXT == <<" ">>
\* str(result) of an ADK result object that has no attribute text
RESULT_REPR == <<"<", "o", "b", "j", ">">>

GeneratedBy(backend) ==
    IF backend = PHI3_MINI THEN PHI3_TEXT
    ELSE IF backend = GEMINI_FLASH THEN FLASH_TEXT
    ELSE PRO_TEXT

(***************************************************************************)
(* State.                                                                  *)
(***************************************************************************)
VARIABLES
    PHI3_SERVICE_URL,  \* os.getenv("PHI3_SERVICE_URL", ""), read at import
    GEMINI_API_KEY,    \* os.getenv("GEMINI_API_KEY", ""), read at import
    pc,                \* where each request's coroutine stands
    caller,            \* who called run_pipeline: "generate" or "direct"
    req,               \* PipelineRequest.user_message of each request
    ids,               \* agent_id, conversation_id, call_sid of each request
    word_count,        \* run_pipeline's local word_count
    phi3_reply,        \* run_pipeline's local phi3_reply
    model_used,        \* run_pipeline's local model_used
    outcome,           \* what run_pipeline handed to its caller
    http,              \* status code sent by /generate, 0 while none is sent
    inflight,          \* backend calls a request is awaiting
    calls,             \* backend adapter invocations of a request, in order
    log                \* log records emitted for a request, in order

vars == <<PHI3_SERVICE_URL, GEMINI_API_KEY, pc, caller, req, ids, word_count,
          phi3_reply, model_used, outcome, http, inflight, calls, log>>

config == <<PHI3_SERVICE_URL, GEMINI_API_KEY>>

NoWords   == -1
NoOutcome == [kind |-> "none", response |-> None, model_used |-> "", exc |-> ""]

\* PipelineResponse(response=..., model_used=...)
PipelineResponse(response, model) ==
    [kind |-> "PipelineResponse", response |-> response, model_used |-> model,
     exc |-> ""]

\* an exception leaving run_pipeline
Raised(exc) ==
    [kind |-> "exception", response |-> None, model_used |-> "", exc |-> exc]

\* a record of the logging module: its level, its message and the values
\* its arguments put into the message
LogRecord(level, msg, words, detail) ==
    [level |-> level, msg |-> msg, words |-> words, detail |-> detail,
     agent |-> "", conv |-> "", call |-> ""]

\* the correlation ids of a request: the defaults of PipelineRequest, or
\* ids of its own
NoIds == [agent_id |-> "", conversation_id |-> "", call_sid |-> ""]

CorrelationIds(r) ==
    [agent_id |-> "agent-1",
     conversation_id |-> "conv-" \o ToString(r),
     call_sid |-> "CA-" \o ToString(r)]

IdChoices(r) == {NoIds, CorrelationIds(r)}

\* main.py line 57: "Generating response | agent=%s conv=%s words=%d"
GeneratingLog(i, words) ==
    [LogRecord("INFO", "Generating response", words, "")
        EXCEPT !.agent = i.agent_id, !.conv = i.conversation_id]

\* one invocation of a backend adapter
Call(backend, network, api_key, timeout) ==
    [backend |-> backend, network |-> network, api_key |-> api_key,
     timeout |-> timeout, result |-> "pending", text |-> None]

NoTimeout == 0

Init ==
    /\ PHI3_SERVICE_URL \in {"", "http://slm:8001/generate"}
    /\ GEMINI_API_KEY \in {"", "key"}
    /\ pc = [r \in Reqs |-> "idle"]
    /\ caller = [r \in Reqs |-> ""]
    /\ req = [r \in Reqs |-> <<>>]
    /\ ids = [r \in Reqs |-> NoIds]
    /\ word_count = [r \in Reqs |-> NoWords]
    /\ phi3_reply = [r \in Reqs |-> None]
    /\ model_used = [r \in Reqs |-> ""]
    /\ outcome = [r \in Reqs |-> NoOutcome]
    /\ http = [r \in Reqs |-> 0]
    /\ inflight = [r \in Reqs |-> {}]
    /\ calls = [r \in Reqs |-> <<>>]
    /\ log = [r \in Reqs |-> <<>>]

Emit(r, rec) == log' = [log EXCEPT ![r] = Append(@, rec)]

(***************************************************************************)
(* main.py: POST /generate, up to its await of run_pipeline.               *)
(***************************************************************************)
generate(r) ==
    /\ pc[r] = "idle"
    /\ \E user_message \in Messages :
        IF Strip(user_message) = <<>>
        THEN \* HTTPException(status_code=400)
             /\ http' = [http EXCEPT ![r] = 400]
             /\ pc' = [pc EXCEPT ![r] = "done"]
             /\ caller' = [caller EXCEPT ![r] = "generate"]
             /\ UNCHANGED <<req, ids, log>>
        ELSE /\ \E i \in IdChoices(r) :
                /\ ids' = [ids EXCEPT ![r] = i]
                /\ Emit(r, GeneratingLog(i, WordCountOf(user_message)))
             /\ req' = [req EXCEPT ![r] = user_message]
             /\ caller' = [caller EXCEPT ![r] = "generate"]
             /\ pc' = [pc EXCEPT ![r] = "run_pipeline"]
             /\ UNCHANGED http
    /\ UNCHANGED <<config, word_count, phi3_reply, model_used, outcome,
                   inflight, calls>>

(***************************************************************************)
(* run_pipeline called as the module's entry point by another caller than  *)
(* /generate: nothing has validated the utterance.                         *)
(***************************************************************************)
direct_call(r) ==
    /\ pc[r] = "idle"
    /\ \E user_message \in Messages :
        req' = [req EXCEPT ![r] = user_message]
    /\ \E i \in IdChoices(r) :
        ids' = [ids EXCEPT ![r] = i]
    /\ caller' = [caller EXCEPT ![r] = "direct"]
    /\ pc' = [pc EXCEPT ![r] = "run_pipeline"]
    /\ UNCHANGED <<config, word_count, phi3_reply, model_used, outcome, http,
                   inflight, calls, log>>

(***************************************************************************)
(* run_pipeline, lines 116-121: count the words, take the Phi-3 branch     *)
(* when there are fewer than PHI3_MAX_WORDS.                               *)
(***************************************************************************)
\* off by one: the threshold itself still goes to Phi-3
TakesPhi3PathInclusive(wc) == wc <= PHI3_MAX_WORDS

TakesPhi3Path(wc) == wc < PHI3_MAX_WORDS

run_pipeline_enter(r) ==
    /\ pc[r] = "run_pipeline"
    /\ word_count' = [word_count EXCEPT ![r] = WordCountOf(req[r])]
    /\ pc' = [pc EXCEPT ![r] =
                IF TakesPhi3Path(WordCountOf(req[r])) THEN "call_phi3"
                ELSE "select_agent"]
    /\ UNCHANGED <<config, ids, caller, req, phi3_reply, model_used, outcome, http,
                   inflight, calls, log>>

(***************************************************************************)
(* slm_server.py: POST /generate of the Phi-3 sidecar.  output is what the *)
(* model wrote; the reply is an HTTP response with a JSON body.            *)
(***************************************************************************)
HttpResponse(status, has_response, response) ==
    [kind |-> "http", status |-> status, has_response |-> has_response,
     response |-> response]

\* the request never got an HTTP response (connection refused, reset, ...)
ConnectError == [kind |-> "transport", status |-> 0, has_response |-> FALSE,
                 response |-> <<>>]

SlmGenerate(message, output) ==
    IF Strip(message) = <<>>
    THEN HttpResponse(400, FALSE, <<>>)
    ELSE HttpResponse(200, TRUE, Strip(output))

\* everything that can come back on the Light call before the timeout:
\* the sidecar's replies, a 500 of the sidecar, a 2xx body that has no
\* "response" member, and a transport failure
LightReplies(message) ==
    { SlmGenerate(message, output) : output \in {PHI3_TEXT, BLANK_TEXT} }
        \cup { HttpResponse(500, FALSE, <<>>),
               HttpResponse(200, FALSE, <<>>),
               ConnectError }

(***************************************************************************)
(* _call_phi3, lines 59-81.                                                *)
(***************************************************************************)
\* the guard of line 64 left out
Phi3ConfiguredAlways(url) == TRUE

\* line 64: `if not PHI3_SERVICE_URL` is false
Phi3Configured(url) == url # ""

\* httpx exception raised inside the try block for a reply, "" when none
\* (post raises on a transport failure, raise_for_status on a 4xx/5xx)
Phi3Exception(reply) ==
    IF reply.kind = "transport" THEN "ConnectError"
    ELSE IF reply.status >= 400 THEN "HTTPStatusError"
    ELSE ""

\* line 78: resp.json().get("response")
JsonGetResponse(reply) ==
    IF reply.has_response THEN Str(reply.response) ELSE None

\* value _call_phi3 returns for a reply (lines 77-81)
Phi3ReturnValue(reply) ==
    IF Phi3Exception(reply) # "" THEN None ELSE JsonGetResponse(reply)

\* line 65
Phi3UnsetLog == LogRecord("WARNING", "PHI3_SERVICE_URL not set", NoWords, "")

\* the exception left out of the log call
Phi3FailedLogNoExc(exc) == LogRecord("ERROR", "Phi-3 call failed", NoWords, "")

\* line 80: logger.error("Phi-3 call failed: %s", exc)
Phi3FailedLog(exc) == LogRecord("ERROR", "Phi-3 call failed", NoWords, exc)

\* what really happened on the Light call, in the words of the specification
Phi3ResultKind(reply) ==
    IF reply.kind = "transport" THEN "transport-error"
    ELSE IF reply.status >= 400 THEN "upstream-error"
    ELSE IF reply.has_response /\ reply.response # <<>> THEN "success"
    ELSE "no-text"

FailureKinds == {"unconfigured", "timeout", "transport-error", "upstream-error"}

\* the last call of a request gets its result
Complete(cs, result, text) ==
    [cs EXCEPT ![Len(cs)] = [@ EXCEPT !.result = result, !.text = text]]

\* a client that is never closed: the request stays open behind the caller
CloseClientLeak(fl, backend) == fl

\* leaving `async with httpx.AsyncClient(...)` closes the client: the call
\* is no longer in flight, whether it ended or was timed out
CloseClient(fl, backend) == fl \ {backend}

\* lines 64-69: return None without a request, or send the POST
call_phi3(r) ==
    /\ pc[r] = "call_phi3"
    /\ IF Phi3Configured(PHI3_SERVICE_URL)
       THEN /\ calls' = [calls EXCEPT ![r] =
                    Append(@, Call(PHI3_MINI, TRUE, "", PHI3_TIMEOUT))]
            /\ inflight' = [inflight EXCEPT ![r] = @ \cup {PHI3_MINI}]
            /\ pc' = [pc EXCEPT ![r] = "phi3_await"]
            /\ UNCHANGED <<phi3_reply, log>>
       ELSE /\ calls' = [calls EXCEPT ![r] =
                    Complete(Append(@, Call(PHI3_MINI, FALSE, "", NoTimeout)),
                             "unconfigured", None)]
            /\ Emit(r, Phi3UnsetLog)
            /\ phi3_reply' = [phi3_reply EXCEPT ![r] = None]
            /\ pc' = [pc EXCEPT ![r] = "phi3_returned"]
            /\ UNCHANGED inflight
    /\ UNCHANGED <<config, ids, caller, req, word_count, model_used, outcome, http>>

\* lines 69-81: a reply arrives before the timeout
phi3_reply_arrives(r) ==
    /\ pc[r] = "phi3_await"
    /\ \E reply \in LightReplies(req[r]) :
        /\ calls' = [calls EXCEPT ![r] =
                Complete(@, Phi3ResultKind(reply),
                         IF reply.has_response THEN Str(reply.response)
                         ELSE None)]
        /\ phi3_reply' = [phi3_reply EXCEPT ![r] = Phi3ReturnValue(reply)]
        /\ IF Phi3Exception(reply) # ""
           THEN Emit(r, Phi3FailedLog(Phi3Exception(reply)))
           ELSE UNCHANGED log
    /\ inflight' = [inflight EXCEPT ![r] = CloseClient(@, PHI3_MINI)]
    /\ pc' = [pc EXCEPT ![r] = "phi3_returned"]
    /\ UNCHANGED <<config, ids, caller, req, word_count, model_used, outcome, http>>

\* line 68: timeout=8.0 expires, httpx raises a TimeoutException (line 79)
phi3_timeout(r) ==
    /\ pc[r] = "phi3_await"
    /\ calls' = [calls EXCEPT ![r] = Complete(@, "timeout", None)]
    /\ phi3_reply' = [phi3_reply EXCEPT ![r] = None]
    /\ Emit(r, Phi3FailedLog("TimeoutException"))
    /\ inflight' = [inflight EXCEPT ![r] = CloseClient(@, PHI3_MINI)]
    /\ pc' = [pc EXCEPT ![r] = "phi3_returned"]
    /\ UNCHANGED <<config, ids, caller, req, word_count, model_used, outcome, http>>

(***************************************************************************)
(* run_pipeline, lines 122-126: return the Phi-3 reply or fall through.    *)
(***************************************************************************)
phi3_returned(r) ==
    /\ pc[r] = "phi3_returned"
    /\ IF Truthy(phi3_reply[r])
       THEN /\ Emit(r, LogRecord("INFO", "Route: phi-3-mini", word_count[r], ""))
            /\ outcome' = [outcome EXCEPT ![r] =
                              PipelineResponse(phi3_reply[r], PHI3_MINI)]
            /\ pc' = [pc EXCEPT ![r] = "returned"]
       ELSE /\ Emit(r, LogRecord("INFO", "Phi-3 fallback -> gemini-flash",
                                 word_count[r], ""))
            /\ pc' = [pc EXCEPT ![r] = "select_agent"]
            /\ UNCHANGED outcome
    /\ UNCHANGED <<config, ids, caller, req, word_count, phi3_reply, model_used,
                   http, inflight, calls>>

(***************************************************************************)
(* ADK agent builders, lines 86-101: an LlmAgent on a LiteLlm model that   *)
(* is handed whatever GEMINI_API_KEY holds.                                *)
(***************************************************************************)
LlmAgent(name, model, api_key) ==
    [name |-> name, model |-> model, api_key |-> api_key]

_build_flash_agent(api_key) ==
    LlmAgent("gemini_flash_responder", GEMINI_FLASH, api_key)

_build_pro_agent(api_key) ==
    LlmAgent("gemini_pro_responder", GEMINI_PRO, api_key)

(***************************************************************************)
(* The hosted provider behind agent.run_async: a result object that has a  *)
(* text (possibly empty), a result object without the attribute, or an     *)
(* exception.  A request that carries no credential is refused.            *)
(***************************************************************************)
AgentResult(has_text, text) ==
    [kind |-> "result", has_text |-> has_text, text |-> text, exc |-> ""]

AgentRaises(exc) ==
    [kind |-> "raise", has_text |-> FALSE, text |-> <<>>, exc |-> exc]

AgentReplies(agent) ==
    IF agent.api_key = ""
    THEN { AgentRaises("AuthenticationError") }
    ELSE { AgentResult(TRUE, GeneratedBy(agent.model)),
           AgentResult(TRUE, <<>>),
           AgentResult(FALSE, <<>>),
           AgentRaises("APIConnectionError"),
           AgentRaises("InternalServerError") }

\* what really happened on the hosted call, in the words of the specification
AgentResultKind(reply) ==
    IF reply.kind = "raise"
    THEN IF reply.exc = "APIConnectionError" THEN "transport-error"
         ELSE "upstream-error"
    ELSE IF reply.has_text /\ reply.text # <<>> THEN "success"
    ELSE "no-text"

(***************************************************************************)
(* run_pipeline, lines 128-140: choose the agent and the label, start the  *)
(* call.                                                                   *)
(***************************************************************************)
\* the comparison of line 129 inverted
SelectAgentInverted(wc, api_key) ==
    IF wc >= FLASH_MAX_WORDS THEN _build_flash_agent(api_key)
    ELSE _build_pro_agent(api_key)

\* lines 129-130, 135
SelectAgent(wc, api_key) ==
    IF wc < FLASH_MAX_WORDS THEN _build_flash_agent(api_key)
    ELSE _build_pro_agent(api_key)

\* line 137 copied from line 132 without changing the alias
SelectModelUsedFlashOnly(wc) == GEMINI_FLASH

\* lines 129, 132, 137
SelectModelUsed(wc) ==
    IF wc < FLASH_MAX_WORDS THEN GEMINI_FLASH ELSE GEMINI_PRO

\* lines 131, 136
RouteLog(wc) ==
    LogRecord("INFO",
              IF wc < FLASH_MAX_WORDS THEN "Route: gemini-flash"
              ELSE "Route: gemini-pro",
              wc, "")

\* the agent kept in one module-level variable that every request
\* overwrites, here the one of the first request
AgentOfShared(r) == SelectAgent(word_count[1], GEMINI_API_KEY)

\* the agent a request in agent_await is awaiting
AgentOf(r) == SelectAgent(word_count[r], GEMINI_API_KEY)

select_agent(r) ==
    /\ pc[r] = "select_agent"
    /\ LET agent == SelectAgent(word_count[r], GEMINI_API_KEY) IN
        /\ calls' = [calls EXCEPT ![r] =
                Append(@, Call(agent.model, TRUE, agent.api_key, NoTimeout))]
        /\ inflight' = [inflight EXCEPT ![r] = @ \cup {agent.model}]
    /\ Emit(r, RouteLog(word_count[r]))
    /\ model_used' = [model_used EXCEPT ![r] = SelectModelUsed(word_count[r])]
    /\ pc' = [pc EXCEPT ![r] = "agent_await"]
    /\ UNCHANGED <<config, ids, caller, req, word_count, phi3_reply, outcome, http>>

(***************************************************************************)
(* run_pipeline, lines 140-143: the awaited call ends.                     *)
(***************************************************************************)
\* line 141: result.text if hasattr(result, "text") else str(result)
ResponseText(reply) ==
    IF reply.has_text THEN Str(reply.text) ELSE Str(RESULT_REPR)

\* the exception of run_async swallowed, its text answered
AgentOutcomeSwallowed(reply, label) ==
    PipelineResponse(IF reply.kind = "raise" THEN Str(<<>>)
                     ELSE ResponseText(reply), label)

\* lines 140-143: an exception of run_async leaves run_pipeline, anything
\* else becomes the PipelineResponse
AgentOutcome(reply, label) ==
    IF reply.kind = "raise" THEN Raised(reply.exc)
    ELSE PipelineResponse(ResponseText(reply), label)

agent_reply_arrives(r) ==
    /\ pc[r] = "agent_await"
    /\ \E reply \in AgentReplies(AgentOf(r)) :
        /\ calls' = [calls EXCEPT ![r] =
                Complete(@, AgentResultKind(reply),
                         IF reply.has_text THEN Str(reply.text) ELSE None)]
        /\ outcome' = [outcome EXCEPT ![r] = AgentOutcome(reply, model_used[r])]
        /\ pc' = [pc EXCEPT ![r] =
                    IF AgentOutcome(reply, model_used[r]).kind = "exception"
                    THEN "raised" ELSE "returned"]
    /\ inflight' = [inflight EXCEPT ![r] = @ \ {AgentOf(r).model}]
    /\ UNCHANGED <<config, ids, caller, req, word_count, phi3_reply, model_used,
                   http, log>>

(***************************************************************************)
(* main.py, lines 72-75: /generate answers.  An exception of run_pipeline  *)
(* is not caught there, the framework answers 500.                         *)
(***************************************************************************)
generate_return(r) ==
    /\ caller[r] = "generate"
    /\ pc[r] \in {"returned", "raised"}
    /\ IF pc[r] = "returned"
       THEN /\ Emit(r, LogRecord("INFO", "Response generated", NoWords,
                                 outcome[r].model_used))
            /\ http' = [http EXCEPT ![r] = 200]
       ELSE /\ http' = [http EXCEPT ![r] = 500]
            /\ UNCHANGED log
    /\ pc' = [pc EXCEPT ![r] = "done"]
    /\ UNCHANGED <<config, ids, caller, req, word_count, phi3_reply, model_used,
                   outcome, inflight, calls>>

(***************************************************************************)
(* Specifications.                                                         *)
(***************************************************************************)
Next ==
    \E r \in Reqs :
        \/ generate(r)
        \/ direct_call(r)
        \/ run_pipeline_enter(r)
        \/ call_phi3(r)
        \/ phi3_reply_arrives(r)
        \/ phi3_timeout(r)
        \/ phi3_returned(r)
        \/ select_agent(r)
        \/ agent_reply_arrives(r)
        \/ generate_return(r)

Spec == Init /\ [][Next]_vars

\* The event loop runs every coroutine that can run, and the httpx timer
\* of the Light call fires; nothing makes a backend answer.
Fairness ==
    \A r \in Reqs :
        /\ WF_vars(run_pipeline_enter(r))
        /\ WF_vars(call_phi3(r))
        /\ WF_vars(phi3_timeout(r))
        /\ WF_vars(phi3_returned(r))
        /\ WF_vars(select_agent(r))
        /\ WF_vars(generate_return(r))

FairSpec == Spec /\ Fairness

(***************************************************************************)
(* Concurrent requests: the event loop interleaves one more /generate      *)
(* coroutine than Spec.  To keep the interleavings countable each request  *)
(* carries ids of its own and one of two utterances, the longest that      *)
(* goes to Phi-3 first and the shortest that goes to Gemini Pro.           *)
(***************************************************************************)
ConcReqs == 1..(NumReqs + 1)

ConcMessages == { Utterance(PHI3_MAX_WORDS - 1), Utterance(FLASH_MAX_WORDS) }

ConcInit ==
    /\ PHI3_SERVICE_URL \in {"", "http://slm:8001/generate"}
    /\ GEMINI_API_KEY \in {"", "key"}
    /\ pc = [r \in ConcReqs |-> "idle"]
    /\ caller = [r \in ConcReqs |-> ""]
    /\ req = [r \in ConcReqs |-> <<>>]
    /\ ids = [r \in ConcReqs |-> NoIds]
    /\ word_count = [r \in ConcReqs |-> NoWords]
    /\ phi3_reply = [r \in ConcReqs |-> None]
    /\ model_used = [r \in ConcReqs |-> ""]
    /\ outcome = [r \in ConcReqs |-> NoOutcome]
    /\ http = [r \in ConcReqs |-> 0]
    /\ inflight = [r \in ConcReqs |-> {}]
    /\ calls = [r \in ConcReqs |-> <<>>]
    /\ log = [r \in ConcReqs |-> <<>>]

\* POST /generate with one of these requests (a blank utterance is
\* answered 400 and leaves nothing behind)
conc_generate(r) ==
    /\ generate(r)
    /\ req'[r] \in ConcMessages \cup {<<>>}
    /\ ids'[r] = CorrelationIds(r) \/ pc'[r] = "done"

ConcNext ==
    \E r \in ConcReqs :
        \/ conc_generate(r)
        \/ run_pipeline_enter(r)
        \/ call_phi3(r)
        \/ phi3_reply_arrives(r)
        \/ phi3_timeout(r)
        \/ phi3_returned(r)
        \/ select_agent(r)
        \/ agent_reply_arrives(r)
        \/ generate_return(r)

ConcSpec == ConcInit /\ [][ConcNext]_vars

Terminal(r) ==
    \/ pc[r] = "done"
    \/ caller[r] = "direct" /\ pc[r] \in {"returned", "raised"}

(***************************************************************************)
(* Vocabulary of the claims.                                               *)
(***************************************************************************)
\* the words of an utterance counted without split: every word of an
\* utterance is one letter
Letters(s) == Cardinality({ i \in 1..Len(s) : ~IsSpace(s[i]) })

Hosted == {GEMINI_FLASH, GEMINI_PRO}

Dispatched(r) == Len(calls[r]) >= 1
LastCall(r)   == calls[r][Len(calls[r])]

\* the request went to the Light backend first and that call failed
LightFailed(r) ==
    /\ Dispatched(r)
    /\ calls[r][1].backend = PHI3_MINI
    /\ calls[r][1].result \in FailureKinds

Ended(r) == pc[r] \in {"returned", "raised", "done"}

(***************************************************************************)
(* C1: when the Light call of a request ends in a failure (unconfigured,   *)
(* timeout, transport error, upstream error), the failure is not what the  *)
(* caller gets: the route ends only after exactly one further dispatch, to *)
(* Standard when the utterance has fewer than 50 words and to Premium      *)
(* otherwise, and when that call succeeds the route returns its text.      *)
(***************************************************************************)
C1_FallbackFromLight ==
    \A r \in Reqs :
        LightFailed(r) =>
            /\ Len(calls[r]) <= 2
            /\ Ended(r) => Len(calls[r]) = 2
            /\ Len(calls[r]) = 2 =>
                  calls[r][2].backend =
                      IF Letters(req[r]) < 50 THEN GEMINI_FLASH ELSE GEMINI_PRO
            /\ outcome[r].kind = "exception" =>
                  /\ Len(calls[r]) = 2
                  /\ calls[r][2].result \in FailureKinds
            /\ (Len(calls[r]) = 2 /\ calls[r][2].result = "success") =>
                  /\ outcome[r].kind = "PipelineResponse"
                  /\ outcome[r].response = calls[r][2].text

C1_Witness ==
    \E r \in Reqs :
        /\ LightFailed(r)
        /\ calls[r][1].result = "unconfigured"
        /\ Len(calls[r]) = 2
        /\ calls[r][2].backend = GEMINI_FLASH
        /\ calls[r][2].result = "success"
        /\ outcome[r].kind = "PipelineResponse"

(***************************************************************************)
(* C2: a failed call to Standard or Premium is the last backend call of    *)
(* its route, and the route ends with that failure handed to the caller    *)
(* (an exception out of run_pipeline, status 500 from /generate).          *)
(***************************************************************************)
C2_HostedFailureIsTerminal ==
    \A r \in Reqs :
        \A i \in 1..Len(calls[r]) :
            (calls[r][i].backend \in Hosted /\ calls[r][i].result \in FailureKinds)
            => /\ i = Len(calls[r])
               /\ inflight[r] = {}
               /\ outcome[r].kind = "exception"
               /\ pc[r] \in {"raised", "done"}
               /\ pc[r] = "done" => http[r] = 500

C2_Witness ==
    \E r \in Reqs :
        /\ Dispatched(r)
        /\ LastCall(r).backend = GEMINI_PRO
        /\ LastCall(r).result = "transport-error"
        /\ pc[r] = "done"
        /\ http[r] = 500

(***************************************************************************)
(* C3: the model_used of a returned PipelineResponse names the backend of  *)
(* the call that ended last and gave the text: text written by Phi-3 is    *)
(* labelled phi-3-mini, by Gemini Flash gemini-2.5-flash, by Gemini Pro    *)
(* gemini-2.5-pro, and nothing returned after a failed Light call is       *)
(* labelled phi-3-mini.                                                    *)
(***************************************************************************)
C3_TierLabel ==
    \A r \in Reqs :
        outcome[r].kind = "PipelineResponse" =>
            /\ Dispatched(r)
            /\ outcome[r].model_used = LastCall(r).backend
            /\ LastCall(r).text.type = "str" =>
                  outcome[r].response = LastCall(r).text
            /\ outcome[r].response.v = PHI3_TEXT =>
                  outcome[r].model_used = "phi-3-mini"
            /\ outcome[r].response.v = FLASH_TEXT =>
                  outcome[r].model_used = "gemini-2.5-flash"
            /\ outcome[r].response.v = PRO_TEXT =>
                  outcome[r].model_used = "gemini-2.5-pro"
            /\ LightFailed(r) => outcome[r].model_used # "phi-3-mini"

C3_Witness ==
    \E r \in Reqs :
        /\ LightFailed(r)
        /\ calls[r][1].result = "timeout"
        /\ outcome[r].kind = "PipelineResponse"
        /\ outcome[r].response.v = FLASH_TEXT
        /\ outcome[r].model_used = "gemini-2.5-flash"

(***************************************************************************)
(* C4: the first backend a request is dispatched to is Phi-3 exactly when  *)
(* its utterance has fewer than 15 words, Gemini Flash exactly when it has *)
(* 15 to 49, Gemini Pro exactly when it has 50 or more; run_pipeline's     *)
(* word_count is the number of words.                                      *)
(***************************************************************************)
C4_Classification ==
    \A r \in Reqs :
        /\ word_count[r] # NoWords => word_count[r] = Letters(req[r])
        /\ Dispatched(r) =>
            LET wc    == Letters(req[r])
                first == calls[r][1].backend
            IN  /\ first = PHI3_MINI <=> wc < 15
                /\ first = GEMINI_FLASH <=> (15 <= wc /\ wc < 50)
                /\ first = GEMINI_PRO <=> wc >= 50

C4_Witness ==
    \E r \in Reqs :
        /\ Letters(req[r]) = 15
        /\ Dispatched(r)
        /\ calls[r][1].backend = GEMINI_FLASH

(***************************************************************************)
(* C5: every backend call of a route is bounded by a timeout, so a route   *)
(* that has started always ends, with a response or with a failure, even   *)
(* when the backend it awaits never answers.                               *)
(***************************************************************************)
C5_RouteAlwaysEnds ==
    \A r \in Reqs : (pc[r] = "run_pipeline") ~> Terminal(r)

(***************************************************************************)
(* C6: the text of a returned PipelineResponse is non-empty and is the     *)
(* text of a backend call that ended in success; a reply without text is   *)
(* never returned as a response.                                           *)
(***************************************************************************)
C6_NoEmptyOrFabricated ==
    \A r \in Reqs :
        outcome[r].kind = "PipelineResponse" =>
            /\ Truthy(outcome[r].response)
            /\ Dispatched(r)
            /\ LastCall(r).result = "success"
            /\ outcome[r].response = LastCall(r).text

(***************************************************************************)
(* C7: a request has at most one backend call in flight; when a call is    *)
(* in flight it is the request's latest, and every earlier call of the     *)
(* request has ended (the Gemini call starts after the Phi-3 call gave its *)
(* outcome).                                                               *)
(***************************************************************************)
C7_Sequential ==
    \A r \in Reqs :
        /\ Cardinality(inflight[r]) <= 1
        /\ \A i \in 1..(Len(calls[r]) - 1) : calls[r][i].result # "pending"
        /\ inflight[r] # {} =>
              /\ Dispatched(r)
              /\ inflight[r] = {LastCall(r).backend}
              /\ LastCall(r).result = "pending"

C7_Witness ==
    \E r \in Reqs :
        /\ Len(calls[r]) = 2
        /\ calls[r][1].backend = PHI3_MINI
        /\ calls[r][1].network
        /\ calls[r][1].result = "timeout"
        /\ inflight[r] = {GEMINI_FLASH}

(***************************************************************************)
(* C8, as claimed: what _call_phi3 hands to run_pipeline after a failed    *)
(* Light call tells which of unconfigured, timeout, transport-error and    *)
(* upstream-error happened.                                                *)
(***************************************************************************)
\* the reason a value returned by _call_phi3 carries: an Optional[str]
\* says failure or success and no more
ReportedReason(value) ==
    IF value.type = "NoneType" THEN "failure" ELSE "success"

C9_NoCallWithoutCredential ==
    \A r \in Reqs :
        \A i \in 1..Len(calls[r]) :
            calls[r][i].backend \in Hosted => calls[r][i].api_key # ""

(***************************************************************************)
(* C10: with PHI3_SERVICE_URL empty no request is ever sent to the Phi-3   *)
(* service: every Light invocation ends as unconfigured without network    *)
(* I/O and without being awaited, returns None, and the next backend call  *)
(* of the route is the Gemini fallback.                                    *)
(***************************************************************************)
C10_NoLightIOWhenUnset ==
    PHI3_SERVICE_URL = "" =>
        \A r \in Reqs :
            /\ pc[r] # "phi3_await"
            /\ PHI3_MINI \notin inflight[r]
            /\ outcome[r].model_used # PHI3_MINI
            /\ pc[r] = "phi3_returned" => phi3_reply[r] = None
            /\ \A i \in 1..Len(calls[r]) :
                  calls[r][i].backend = PHI3_MINI =>
                      /\ i = 1
                      /\ ~calls[r][i].network
                      /\ calls[r][i].result = "unconfigured"
                      /\ Len(calls[r]) >= 2 => calls[r][2].backend \in Hosted

C10_Witness ==
    /\ PHI3_SERVICE_URL = ""
    /\ \E r \in Reqs :
        /\ Len(calls[r]) = 2
        /\ calls[r][1].backend = PHI3_MINI
        /\ ~calls[r][1].network
        /\ calls[r][2].backend = GEMINI_FLASH

(***************************************************************************)
(* C13: a Light reply with a success status and an empty or missing        *)
(* response text is handled like a Light failure: nothing labelled         *)
(* phi-3-mini is ever returned with empty text, the route ends only after  *)
(* one further dispatch to the Gemini agent the word count selects, and    *)
(* what it returns carries that agent's label.                             *)
(***************************************************************************)
\* the request went to the Light backend first, which answered 2xx
\* without a text
LightNoText(r) ==
    /\ Dispatched(r)
    /\ calls[r][1].backend = PHI3_MINI
    /\ calls[r][1].result = "no-text"

C13_EmptyLightReplyFallsBack ==
    \A r \in Reqs :
        /\ outcome[r].model_used = "phi-3-mini" =>
              /\ outcome[r].response.type = "str"
              /\ outcome[r].response.v # <<>>
        /\ LightNoText(r) =>
            /\ pc[r] # "returned" \/ Len(calls[r]) = 2
            /\ Ended(r) => Len(calls[r]) = 2
            /\ Len(calls[r]) <= 2
            /\ Len(calls[r]) = 2 =>
                  calls[r][2].backend =
                      IF Letters(req[r]) < 50 THEN GEMINI_FLASH ELSE GEMINI_PRO
            /\ outcome[r].kind = "PipelineResponse" =>
                  outcome[r].model_used = calls[r][2].backend

C13_Witness ==
    \E r \in Reqs :
        /\ LightNoText(r)
        /\ calls[r][1].text = Str(<<>>)
        /\ Len(calls[r]) = 2
        /\ calls[r][2].backend = GEMINI_FLASH
        /\ outcome[r].kind = "PipelineResponse"
        /\ outcome[r].model_used = "gemini-2.5-flash"

(***************************************************************************)
(* C12: the log records emitted for a completed route record the word      *)
(* count, the correlation ids of the request (agent id, conversation id,   *)
(* call id), the tier tried first, the tier whose answer was returned,     *)
(* and, when the route fell back, that it did and why.                     *)
(***************************************************************************)
\* run_pipeline was entered and has returned or raised
RouteCompleted(r) ==
    \/ pc[r] \in {"returned", "raised"}
    \/ pc[r] = "done" /\ http[r] # 400

\* the log record names the backend
NamesTier(e, backend) ==
    \/ e.detail = backend
    \/ backend = PHI3_MINI /\
          e.msg \in {"Route: phi-3-mini", "Phi-3 fallback -> gemini-flash"}
    \/ backend = GEMINI_FLASH /\ e.msg = "Route: gemini-flash"
    \/ backend = GEMINI_PRO /\ e.msg = "Route: gemini-pro"

C12_DecisionLogged ==
    \A r \in Reqs :
        RouteCompleted(r) =>
            LET entries == { log[r][i] : i \in 1..Len(log[r]) } IN
            /\ \E e \in entries : e.words = Letters(req[r])
            /\ \E e \in entries : e.agent = ids[r].agent_id
            /\ \E e \in entries : e.conv = ids[r].conversation_id
            /\ \E e \in entries : e.call = ids[r].call_sid
            /\ \E e \in entries : NamesTier(e, calls[r][1].backend)
            /\ outcome[r].kind = "PipelineResponse" =>
                  \E e \in entries : NamesTier(e, outcome[r].model_used)
            /\ Len(calls[r]) = 2 =>
                  /\ \E e \in entries : e.msg = "Phi-3 fallback -> gemini-flash"
                  /\ \E e \in entries : e.level \in {"WARNING", "ERROR"}

(***************************************************************************)
(* C11: concurrent requests do not interfere.  Two requests with the same  *)
(* utterance whose backend calls ended the same way stand, at the same     *)
(* point of the route, with the same calls, locals, result and log lines,  *)
(* however their steps were interleaved with each other's; a step of one   *)
(* request changes nothing of another request; and PHI3_SERVICE_URL and    *)
(* GEMINI_API_KEY never change.                                            *)
(***************************************************************************)
\* everything the model keeps for one request
Local(q) ==
    <<pc[q], caller[q], req[q], ids[q], word_count[q], phi3_reply[q],
      model_used[q], outcome[q], http[q], inflight[q], calls[q], log[q]>>

\* the log records of a request without the ids /generate puts in them
LogLines(q) ==
    [ i \in 1..Len(log[q]) |-> [log[q][i] EXCEPT !.agent = "", !.conv = ""] ]

\* same request, same progress, same outcomes of their own backend calls
SameInputs(r, q) ==
    /\ pc[r] = pc[q]
    /\ caller[r] = caller[q]
    /\ req[r] = req[q]
    /\ Len(calls[r]) = Len(calls[q])
    /\ \A i \in 1..Len(calls[r]) :
          /\ calls[r][i].result = calls[q][i].result
          /\ calls[r][i].text = calls[q][i].text

SameResults(r, q) ==
    /\ calls[r] = calls[q]
    /\ word_count[r] = word_count[q]
    /\ phi3_reply[r] = phi3_reply[q]
    /\ model_used[r] = model_used[q]
    /\ outcome[r] = outcome[q]
    /\ http[r] = http[q]
    /\ inflight[r] = inflight[q]
    /\ LogLines(r) = LogLines(q)

C11_NoInterference ==
    /\ [](\A r, q \in ConcReqs : SameInputs(r, q) => SameResults(r, q))
    /\ [][ /\ \A q \in ConcReqs : pc'[q] = pc[q] => Local(q)' = Local(q)
           /\ config' = config ]_vars

C11_Witness ==
    \E r, q \in ConcReqs :
        /\ r # q
        /\ SameInputs(r, q)
        /\ ids[r] # ids[q]
        /\ pc[r] = "done"
        /\ Len(calls[r]) = 2
        /\ calls[r][1].result = "timeout"
        /\ outcome[r].kind = "PipelineResponse"

=============================================================================
